---- MODULE Spec2Model ----
(***************************************************************************)
(* Model of the chart ingestion and statistics engine of qr-website:       *)
(* ChartDataProcessor (src/data_processor.py) and the chart endpoints of   *)
(* the Flask layer (src/app.py).                                           *)
(*                                                                         *)
(* Python strings are sequences of one-character strings.  A Python value  *)
(* read from a table (a header or a cell) is a record [k, s, n]:           *)
(*   k = "nan"   a missing cell (NaN / None)                               *)
(*   k = "str"   the string s                                              *)
(*   k = "int"   the integer n                                             *)
(*   k = "float" the finite float n / 10                                   *)
(*   k = "inf"   the float infinity                                        *)
(***************************************************************************)
EXTENDS Integers, Sequences, FiniteSets, TLC

\* ------------------------------------------------------------------------
\* Bounds of the model
\* ------------------------------------------------------------------------
MaxRows == 2
MaxCalls == 2
MaxPos == 2

\* ------------------------------------------------------------------------
\* Python values and strings
\* ------------------------------------------------------------------------
PyVal(k, s, n) == [k |-> k, s |-> s, n |-> n]
PyNaN == PyVal("nan", <<>>, 0)
PyInf == PyVal("inf", <<>>, 0)
PyStr(s) == PyVal("str", s, 0)
PyInt(n) == PyVal("int", <<>>, n)
PyFloat(t) == PyVal("float", <<>>, t)

\* The absent position (Python None) and the absent column.
None == -1000
NoColumn == 0

DigitChars == <<"0", "1", "2", "3", "4", "5", "6", "7", "8", "9">>
Digits == {DigitChars[i] : i \in 1..10}
UpperChars == <<"A", "B", "C", "D", "E", "F", "G", "H", "I", "J", "K", "L", "M", "N", "O", "P", "Q", "R", "S", "T", "U", "V", "W", "X", "Y", "Z">>
LowerChars == <<"a", "b", "c", "d", "e", "f", "g", "h", "i", "j", "k", "l", "m", "n", "o", "p", "q", "r", "s", "t", "u", "v", "w", "x", "y", "z">>
Letters == {UpperChars[i] : i \in 1..26} \cup {LowerChars[i] : i \in 1..26}
\* str.strip() and the regex class \s
Whitespace == {" ", "\t"}
\* characters of Unicode general category S* (Sc, Sm, Sk)
SymbolChars == {"$", "+", "<", "=", ">", "^", "|", "~"}
\* the punctuation kept by the second regex of normalize_song_title
KeptPunct == {"-", ".", ",", ":", ";", "&", "(", ")", "'", "\""}
\* the regex class \w
WordChars == Letters \cup Digits \cup {"_"}

DigitVal(c) == (CHOOSE i \in 1..10 : DigitChars[i] = c) - 1

LowerChar(c) == IF \E i \in 1..26 : UpperChars[i] = c THEN LowerChars[CHOOSE i \in 1..26 : UpperChars[i] = c] ELSE c

\* str.lower()
Lower(s) == [i \in 1..Len(s) |-> LowerChar(s[i])]

RECURSIVE LStrip(_)
LStrip(s) == IF s # <<>> /\ Head(s) \in Whitespace THEN LStrip(Tail(s)) ELSE s

RECURSIVE RStrip(_)
RStrip(s) == IF s # <<>> /\ s[Len(s)] \in Whitespace THEN RStrip(SubSeq(s, 1, Len(s) - 1)) ELSE s

\* str.strip()
Strip(s) == RStrip(LStrip(s))

\* str.isdigit()
IsDigit(s) == s # <<>> /\ \A i \in 1..Len(s) : s[i] \in Digits

RECURSIVE DigitsToInt(_)
DigitsToInt(s) == IF s = <<>> THEN 0 ELSE 10 * DigitsToInt(SubSeq(s, 1, Len(s) - 1)) + DigitVal(s[Len(s)])

RECURSIVE NatToStr(_)
NatToStr(n) == IF n < 10 THEN <<DigitChars[n + 1]>> ELSE NatToStr(n \div 10) \o <<DigitChars[(n % 10) + 1]>>

Abs(n) == IF n < 0 THEN -n ELSE n

IntToStr(n) == IF n < 0 THEN <<"-">> \o NatToStr(-n) ELSE NatToStr(n)

\* "needle in s" for Python strings
Contains(s, needle) == \E i \in 0..(Len(s) - Len(needle)) : SubSeq(s, i + 1, i + Len(needle)) = needle

\* str(value)
PyToStr(v) == CASE v.k = "str" -> v.s
    [] v.k = "int" -> IntToStr(v.n)
    [] v.k = "float" -> (IF v.n < 0 THEN <<"-">> ELSE <<>>) \o NatToStr(Abs(v.n) \div 10) \o <<".">> \o NatToStr(Abs(v.n) % 10)
    [] v.k = "inf" -> <<"i", "n", "f">>
    [] OTHER -> <<"n", "a", "n">>

\* pandas.isna(value)
IsNa(v) == v.k = "nan"

\* ------------------------------------------------------------------------
\* normalize_song_title
\* ------------------------------------------------------------------------
RECURSIVE RemoveChars(_, _)
RemoveChars(s, drop) == IF s = <<>> THEN <<>> ELSE (IF Head(s) \in drop THEN <<>> ELSE <<Head(s)>>) \o RemoveChars(Tail(s), drop)

\* re.sub(r'\s+', ' ', s)
RECURSIVE CollapseSpaces(_)
CollapseSpaces(s) == IF s = <<>> THEN <<>>
    ELSE IF Head(s) \in Whitespace THEN <<" ">> \o CollapseSpaces(LStrip(s))
    ELSE <<Head(s)>> \o CollapseSpaces(Tail(s))

RECURSIVE KeepChars(_, _)
KeepChars(s, keep) == IF s = <<>> THEN <<>> ELSE (IF Head(s) \in keep THEN <<Head(s)>> ELSE <<>>) \o KeepChars(Tail(s), keep)

normalize_song_title(title) == IF IsNa(title) \/ title = PyStr(<<>>) THEN <<>>
    ELSE Strip(KeepChars(CollapseSpaces(RemoveChars(Strip(PyToStr(title)), SymbolChars)), WordChars \cup Whitespace \cup KeptPunct))

\* ------------------------------------------------------------------------
\* list.sort(key=...): a stable sort of [key, item] pairs by ascending key.
\* A pair is placed after every pair whose key is not greater, so equal keys
\* keep their order.  sort(reverse=True) keeps equal keys in their original
\* order as well: it is the same sort on the negated key.
\* ------------------------------------------------------------------------
InsertByKey(sorted, x) == LET k == Cardinality({j \in 1..Len(sorted) : sorted[j].key <= x.key})
    IN SubSeq(sorted, 1, k) \o <<x>> \o SubSeq(sorted, k + 1, Len(sorted))

\* Variant: a pair is placed before the pairs with the same key
InsertByKeyFirst(sorted, x) == LET k == Cardinality({j \in 1..Len(sorted) : sorted[j].key < x.key})
    IN SubSeq(sorted, 1, k) \o <<x>> \o SubSeq(sorted, k + 1, Len(sorted))

RECURSIVE SortByKey(_)
SortByKey(s) == IF s = <<>> THEN <<>> ELSE InsertByKey(SortByKey(SubSeq(s, 1, Len(s) - 1)), s[Len(s)])

RECURSIVE SortByKeyUnstable(_)
SortByKeyUnstable(s) == IF s = <<>> THEN <<>> ELSE InsertByKeyFirst(SortByKeyUnstable(SubSeq(s, 1, Len(s) - 1)), s[Len(s)])

Items(pairs) == [i \in 1..Len(pairs) |-> pairs[i].item]

\* ------------------------------------------------------------------------
\* Schema inference: find_chart_columns, find_song_column
\* A column is named by its index in the header.
\* ------------------------------------------------------------------------
\* Outcome of the try block for one header (lines 54-66), col_str being
\* str(col).strip(): [q |-> "num", n |-> chart_num], [q |-> "skip"] (continue)
\* or [q |-> "raise"] (an exception that the handler of (ValueError,
\* TypeError) does not catch: int(inf))
ChartNumOf(col, col_str) == IF IsDigit(col_str) THEN [q |-> "num", n |-> DigitsToInt(col_str)]
    ELSE IF col.k = "int" THEN [q |-> "num", n |-> col.n]
    ELSE IF col.k = "float" THEN [q |-> "num", n |-> (IF col.n < 0 THEN -(Abs(col.n) \div 10) ELSE col.n \div 10)]
    ELSE IF col.k = "inf" THEN [q |-> "raise", n |-> 0]
    ELSE [q |-> "skip", n |-> 0]

HeaderChartNum(col) == ChartNumOf(col, Strip(PyToStr(col)))

MinChartNum == 1
MaxChartNum == 99

\* lines 69-70: the range check, and the tuple appended for column i
InRange(c) == c.q = "num" /\ MinChartNum <= c.n /\ c.n <= MaxChartNum

ChartColumn(i, c) == IF InRange(c) THEN <<[col |-> i, num |-> c.n]>> ELSE <<>>

RECURSIVE ScanChartColumns(_, _)
ScanChartColumns(header, i) == IF i > Len(header) THEN <<>>
    ELSE ChartColumn(i, HeaderChartNum(header[i])) \o ScanChartColumns(header, i + 1)

ChartColumnsRaise(header) == \E i \in 1..Len(header) : HeaderChartNum(header[i]).q = "raise"

\* line 78: chart_columns.sort(key=lambda x: x[1])
SortByNum(found) == Items(SortByKey([i \in 1..Len(found) |-> [key |-> found[i].num, item |-> found[i]]]))

find_chart_columns(header) == SortByNum(ScanChartColumns(header, 1))

possible_song_columns == {<<"S", "o", "n", "g">>, <<"s", "o", "n", "g">>, <<"S", "O", "N", "G">>,
    <<"T", "i", "t", "l", "e">>, <<"t", "i", "t", "l", "e">>, <<"T", "I", "T", "L", "E">>,
    <<"T", "r", "a", "c", "k">>, <<"t", "r", "a", "c", "k">>, <<"T", "R", "A", "C", "K">>}

HasSongWord(col_str) == Contains(col_str, <<"s", "o", "n", "g">>) \/ Contains(col_str, <<"t", "i", "t", "l", "e">>) \/ Contains(col_str, <<"t", "r", "a", "c", "k">>)

PartialSongMatch(col) == HasSongWord(Lower(Strip(PyToStr(col))))

ExactSongMatch(col) == Strip(PyToStr(col)) \in possible_song_columns

Min(set) == CHOOSE m \in set : \A o \in set : m <= o
Max(set) == CHOOSE m \in set : \A o \in set : o <= m

\* the first column of the exact matches, else of the partial matches
FirstMatch(exact, partial) == IF exact # {} THEN Min(exact) ELSE IF partial # {} THEN Min(partial) ELSE NoColumn

find_song_column(header) == FirstMatch({i \in 1..Len(header) : ExactSongMatch(header[i])}, {i \in 1..Len(header) : PartialSongMatch(header[i])})

\* ------------------------------------------------------------------------
\* Cell parsing (process_chart_data, lines 171-187)
\* ------------------------------------------------------------------------
Raised == -2000

\* float(s) for a stripped string without exponent or digit separators:
\* [q |-> "num", n |-> sign * integer part], "inf", "nan" or "err" (ValueError)
IsSigned(s) == s # <<>> /\ Head(s) \in {"+", "-"}

\* the digits before and after the first "." of a number with a "."
ParseDotted(sign, ip, fp) == IF (ip = <<>> \/ IsDigit(ip)) /\ (fp = <<>> \/ IsDigit(fp)) /\ (ip # <<>> \/ fp # <<>>)
    THEN [q |-> "num", n |-> sign * DigitsToInt(ip)]
    ELSE [q |-> "err", n |-> 0]

ParseNumber(sign, body, dots) == IF dots = {} THEN (IF IsDigit(body) THEN [q |-> "num", n |-> sign * DigitsToInt(body)] ELSE [q |-> "err", n |-> 0])
    ELSE ParseDotted(sign, SubSeq(body, 1, Min(dots) - 1), SubSeq(body, Min(dots) + 1, Len(body)))

ParseUnsigned(sign, body, lower) == IF lower \in {<<"i", "n", "f">>, <<"i", "n", "f", "i", "n", "i", "t", "y">>} THEN [q |-> "inf", n |-> 0]
    ELSE IF lower = <<"n", "a", "n">> THEN [q |-> "nan", n |-> 0]
    ELSE ParseNumber(sign, body, {i \in 1..Len(body) : body[i] = "."})

ParseSigned(sign, body) == ParseUnsigned(sign, body, Lower(body))

ParseFloat(s) == IF IsSigned(s) THEN ParseSigned(IF Head(s) = "-" THEN -1 ELSE 1, Tail(s)) ELSE ParseSigned(1, s)

\* int(f) inside "try ... except (ValueError, TypeError)": a rank, None
\* (ValueError caught) or Raised (OverflowError, not caught)
IntOf(f) == IF f.q = "num" THEN f.n ELSE IF f.q = "inf" THEN Raised ELSE None

IntOfFloat(s) == IntOf(ParseFloat(s))

\* lines 180-184
ParseStripped(position_val) == IF position_val = <<"-", "-">> \/ position_val = <<>> THEN None ELSE IntOfFloat(position_val)

ParseCell(position) == IF IsNa(position) \/ position \in {PyStr(<<"-", "-">>), PyStr(<<>>), PyStr(<<" ">>)} THEN None
    ELSE ParseStripped(Strip(PyToStr(position)))

\* ------------------------------------------------------------------------
\* The row loop of process_chart_data (lines 158-200)
\* ------------------------------------------------------------------------
\* dict.get(key): None when the key is not in the dict
Get(positions, key) == IF key \in DOMAIN positions THEN positions[key] ELSE None

\* song_data["positions"] after the loop over chart_columns: one key per
\* edition number, holding the value of the last column with that number
RowPositions(row, chart_columns) == LET nums == {chart_columns[j].num : j \in 1..Len(chart_columns)}
    IN [e \in nums |-> ParseCell(row[chart_columns[Max({j \in 1..Len(chart_columns) : chart_columns[j].num = e})].col])]

\* Variant: every edition of the table counts, charted or not
TotalChartsAllKeys(positions) == Cardinality(DOMAIN positions)

\* lines 190-193
TotalCharts(positions) == Cardinality({e \in DOMAIN positions : positions[e] # None})

\* lines 165-168 and 190-193: the song record of a row
SongData(song_title, positions) == [title |-> song_title, positions |-> positions, total_charts |-> TotalCharts(positions)]

RowRaises(row, chart_columns) == \E j \in 1..Len(chart_columns) : ParseCell(row[chart_columns[j].col]) = Raised

\* Variant: a row without any rank is kept too
KeepAlways(song_title, raises, song_data) == IF song_title = <<>> THEN [q |-> "skip", song |-> <<>>]
    ELSE IF raises THEN [q |-> "raise", song |-> <<>>]
    ELSE [q |-> "append", song |-> <<song_data>>]

\* lines 161-163 and 196-200: skip a row without title, keep a row with a rank
KeepOrSkip(song_title, raises, song_data) == IF song_title = <<>> THEN [q |-> "skip", song |-> <<>>]
    ELSE IF raises THEN [q |-> "raise", song |-> <<>>]
    ELSE IF song_data.total_charts > 0 THEN [q |-> "append", song |-> <<song_data>>]
    ELSE [q |-> "skip", song |-> <<>>]

RowOutcomeOf(song_title, row, chart_columns) == KeepOrSkip(song_title, RowRaises(row, chart_columns), SongData(song_title, RowPositions(row, chart_columns)))

\* One iteration of the row loop: "skip", "append" (with the song record)
\* or "raise" (a cell raised an exception the inner handler does not catch)
RowOutcome(row, song_column, chart_columns) == RowOutcomeOf(normalize_song_title(row[song_column]), row, chart_columns)

\* The row loop from row i on: the songs list it leaves and whether it raised
RECURSIVE RunRows(_, _, _, _, _)
AfterRow(o, acc, rows, i, song_column, chart_columns) == IF o.q = "raise" THEN [songs |-> acc, raised |-> TRUE]
    ELSE RunRows(acc \o o.song, rows, i + 1, song_column, chart_columns)

RunRows(acc, rows, i, song_column, chart_columns) == IF i > Len(rows) THEN [songs |-> acc, raised |-> FALSE]
    ELSE AfterRow(RowOutcome(rows[i], song_column, chart_columns), acc, rows, i, song_column, chart_columns)

\* ------------------------------------------------------------------------
\* The data file: extension, presence, header row and data rows
\* ------------------------------------------------------------------------
SupportedExt == {".xlsx", ".xls", ".csv"}

Str1(a) == PyStr(<<a>>)
HSong == PyStr(<<"S", "o", "n", "g">>)
HExtra == PyStr(<<"e", "x", "t", "r", "a">>)

RankCells == {PyNaN} \cup {PyInt(p) : p \in 1..MaxPos}

\* Tables of ranks over two editions: row i titled with the i-th letter, or
\* every row with the same title
DatasetHeader == <<HSong, Str1("1"), Str1("2")>>
DatasetCells == {PyNaN, PyInt(1), PyInt(2)}
DatasetRows == {<<c1, c2>> : c1 \in DatasetCells, c2 \in DatasetCells}
SameTitledRows == {<<c1, c2>> : c1 \in {PyNaN, PyInt(1)}, c2 \in {PyNaN, PyInt(1)}}
Titled(rows) == [i \in 1..Len(rows) |-> <<Str1(LowerChars[i])>> \o rows[i]]
SameTitled(rows) == [i \in 1..Len(rows) |-> <<Str1("a")>> \o rows[i]]

\* Tables of one song over three editions
HistoryHeader == <<HSong, Str1("1"), Str1("2"), Str1("3")>>
HistoryRows == {<<Str1("a"), c1, c2, c3>> : c1 \in RankCells, c2 \in RankCells, c3 \in RankCells}

\* Tables with one edition and every kind of cell value and title
CellHeader == <<HSong, Str1("1")>>
CellTitles == {PyNaN, PyStr(<<>>), Str1("a"), PyStr(<<" ", "a", " ">>), PyStr(<<"a", "!">>), Str1("$"), Str1("A")}
CellValues == {PyNaN, PyStr(<<"-", "-">>), PyStr(<<" ", "-", "-">>), PyStr(<<>>), Str1(" "), PyStr(<<"a", "b", "c">>),
    PyStr(<<"3", ".", "0">>), PyStr(<<"i", "n", "f">>), PyStr(<<"n", "a", "n">>), PyInf, PyFloat(37), PyFloat(-5), PyInt(0), PyInt(-1), PyInt(1)}
CellRows == {<<t, c>> : t \in CellTitles, c \in CellValues}

\* Tables whose later rows may hold a cell that cannot become an integer
MixedRows == {<<Str1("a"), c>> : c \in {PyInt(1), PyInf, PyStr(<<"a", "b", "c">>)}}

\* Header rows for schema inference, each with one row of ranks
SchemaHeaders == {<<HSong, Str1("2"), Str1("1")>>, <<HSong, Str1("1"), Str1("3")>>, <<HSong, Str1("1"), PyStr(<<"0", "1">>)>>,
    <<HExtra, Str1("1"), Str1("2")>>, <<HSong, HExtra, HExtra>>, <<HSong, PyInt(1), PyFloat(25)>>, <<HSong, PyInt(3), PyInt(5)>>}
SchemaRows == {<<Str1("a"), c1, c2>> : c1 \in {PyNaN, PyInt(1)}, c2 \in {PyNaN, PyInt(2)}}

SeqsUpTo(set, n) == UNION {[1..k -> set] : k \in 0..n}

Table(header, rows) == [ext |-> ".csv", exists |-> TRUE, header |-> header, rows |-> rows]

Files == {Table(DatasetHeader, Titled(rows)) : rows \in SeqsUpTo(DatasetRows, MaxRows)}
    \cup {Table(DatasetHeader, SameTitled(rows)) : rows \in SeqsUpTo(SameTitledRows, MaxRows)}
    \cup {Table(HistoryHeader, <<r>>) : r \in HistoryRows}
    \cup {Table(CellHeader, <<r>>) : r \in CellRows}
    \cup {Table(CellHeader, rows) : rows \in SeqsUpTo(MixedRows, MaxRows)}
    \cup {Table(h, <<r>>) : h \in SchemaHeaders, r \in SchemaRows}
    \cup {[ext |-> ".txt", exists |-> TRUE, header |-> CellHeader, rows |-> <<>>],
          [ext |-> ".csv", exists |-> FALSE, header |-> CellHeader, rows |-> <<>>]}

\* ------------------------------------------------------------------------
\* get_chart_data
\* ------------------------------------------------------------------------
\* the value stored under the largest of the edition numbers in earlier
LastOf(positions, earlier) == IF earlier # {} THEN positions[Max(earlier)] ELSE None

\* Variant: the nearest smaller edition with a rank, skipping absent ones
PrevPositionSkipAbsent(positions, chart_number) == LastOf(positions, {m \in 1..(chart_number - 1) : Get(positions, m) # None})

\* The previous position: the value stored under the nearest smaller edition
\* number that is a key of positions (lines 238-244)
PrevPosition(positions, chart_number) == LastOf(positions, {m \in 1..(chart_number - 1) : m \in DOMAIN positions})

RECURSIVE ChartEntries(_, _, _)
ChartEntries(ss, i, chart_number) == IF i > Len(ss) THEN <<>>
    ELSE (IF Get(ss[i].positions, chart_number) # None
          THEN <<[position |-> Get(ss[i].positions, chart_number), prev_position |-> PrevPosition(ss[i].positions, chart_number),
                  title |-> ss[i].title, total_charts |-> ss[i].total_charts]>>
          ELSE <<>>) \o ChartEntries(ss, i + 1, chart_number)

\* Variant: a sort that reverses the order of entries with equal position
SortByPositionUnstable(chart_data) == Items(SortByKeyUnstable([i \in 1..Len(chart_data) |-> [key |-> chart_data[i].position, item |-> chart_data[i]]]))

\* line 254: chart_data.sort(key=lambda x: x["position"])
SortByPosition(chart_data) == Items(SortByKey([i \in 1..Len(chart_data) |-> [key |-> chart_data[i].position, item |-> chart_data[i]]]))

get_chart_data(ss, chart_number) == SortByPosition(ChartEntries(ss, 1, chart_number))

\* ------------------------------------------------------------------------
\* Statistics helpers of the web layer (src/app.py)
\* ------------------------------------------------------------------------
PointsCap == 100

RECURSIVE SumPoints(_, _)
\* Variant: a rank beyond the cap earns 101 - rank as well
PointsUncapped(position) == IF position # None THEN (PointsCap + 1) - position ELSE 0

\* lines 54-55
Points(position) == IF position # None /\ position <= PointsCap THEN (PointsCap + 1) - position ELSE 0

SumPoints(positions, keys) == IF keys = {} THEN 0
    ELSE Points(positions[Min(keys)]) + SumPoints(positions, keys \ {Min(keys)})

calculate_total_points(song_data) == SumPoints(song_data.positions, DOMAIN song_data.positions)

count_number_ones(song_data) == Cardinality({e \in DOMAIN song_data.positions : song_data.positions[e] = 1})

MinOrNone(ps) == IF ps # {} THEN Min(ps) ELSE None

get_top_spot(song_data) == MinOrNone({song_data.positions[e] : e \in DOMAIN song_data.positions} \ {None})

\* ------------------------------------------------------------------------
\* /api/chart/<int:chart_number>
\* ------------------------------------------------------------------------
\* the "--" shown for a missing previous position
Placeholder == -3000

MovementTypes == {"new", "riser", "faller", "same", "reentry"}

CountTypes(data) == [t \in MovementTypes |-> Cardinality({i \in 1..Len(data) : data[i].movement_type = t})]

\* "for song in processor.songs: if song['title'] == title: ...; break":
\* the first record with that title (0 when there is none)
MinOrZero(hits) == IF hits = {} THEN 0 ELSE Min(hits)

FirstWithTitle(ss, title) == MinOrZero({i \in 1..Len(ss) : ss[i].title = title})

\* lines 288-299: previous position missing
ChartedBefore(ss, k, chart_number) == k # 0 /\ \E chart_num \in 1..(chart_number - 1) : Get(ss[k].positions, chart_num) # None

IsReentry(ss, title, chart_number) == chart_number > 1 /\ ChartedBefore(ss, FirstWithTitle(ss, title), chart_number)

\* lines 285-307
MovementOf(movement_value) == [type |-> IF movement_value >= 1 THEN "riser" ELSE IF movement_value <= -1 THEN "faller" ELSE "same", value |-> movement_value]

Movement(ss, item, chart_number) == IF item.prev_position = None
    THEN [type |-> IF IsReentry(ss, item.title, chart_number) THEN "reentry" ELSE "new", value |-> 0]
    ELSE MovementOf(item.prev_position - item.position)

\* lines 274-321: one entry of a regular chart
Formatted(ss, item, k, m) == [position |-> item.position,
        prev_position |-> IF item.prev_position # None /\ item.prev_position # 0 THEN item.prev_position ELSE Placeholder,
        title |-> item.title,
        total_charts |-> item.total_charts,
        movement_type |-> m.type,
        movement_value |-> m.value,
        total_points |-> IF k = 0 THEN 0 ELSE calculate_total_points(ss[k]),
        number_ones |-> IF k = 0 THEN 0 ELSE count_number_ones(ss[k]),
        top_spot |-> IF k = 0 THEN None ELSE get_top_spot(ss[k])]

FormatEntry(ss, item, chart_number) == Formatted(ss, item, FirstWithTitle(ss, item.title), Movement(ss, item, chart_number))

\* lines 227-249: one entry of the all-songs chart; its position is assigned
\* after the sort (line 254), the latest position of lines 228-233 is
\* overwritten there
AllSongsEntry(song) == [position |-> 0,
    prev_position |-> Placeholder,
    title |-> song.title,
    total_charts |-> song.total_charts,
    movement_type |-> "same",
    movement_value |-> 0,
    total_points |-> calculate_total_points(song),
    number_ones |-> count_number_ones(song),
    top_spot |-> get_top_spot(song)]

\* lines 253-254: positions 1..N in the order of the list
Renumber(sorted) == [idx \in 1..Len(sorted) |-> [sorted[idx] EXCEPT !.position = idx]]

\* Variant: a sort that reverses the order of songs with equal points
AllSongsViewReversed(ss) == Renumber(Items(SortByKeyUnstable([i \in 1..Len(ss) |-> [key |-> -calculate_total_points(ss[i]), item |-> AllSongsEntry(ss[i])]])))

\* lines 251-254: sort(key=total_points, reverse=True), then renumber
AllSongsView(ss) == Renumber(Items(SortByKey([i \in 1..Len(ss) |-> [key |-> -calculate_total_points(ss[i]), item |-> AllSongsEntry(ss[i])]])))

ZeroCounts == [t \in MovementTypes |-> 0]

Response(status, data, counts) == [status |-> status, data |-> data, counts |-> counts]

FormatAll(ss, chart_data, chart_number) == [i \in 1..Len(chart_data) |-> FormatEntry(ss, chart_data[i], chart_number)]

Counted(formatted_data) == Response("ok", formatted_data, CountTypes(formatted_data))

get_chart(ok, d, chart_number) == IF ~ok THEN Response("No data available", <<>>, ZeroCounts)
    ELSE IF chart_number < 0 \/ chart_number > d.num_charts THEN Response("Invalid chart number", <<>>, ZeroCounts)
    ELSE IF chart_number = 0 THEN Response("ok", AllSongsView(d.songs), ZeroCounts)
    ELSE Counted(FormatAll(d.songs, get_chart_data(d.songs, chart_number), chart_number))

\* ------------------------------------------------------------------------
\* State
\* ------------------------------------------------------------------------
VARIABLES
    file,        \* the data file at data_path
    songs,       \* ChartDataProcessor.songs
    num_charts,  \* ChartDataProcessor.num_charts
    started,     \* the module-level code of app.py has run
    success,     \* the module-level success flag of app.py
    calls,       \* number of process_chart_data calls begun
    ret,         \* the (success, message) process_chart_data returned last
    pc,          \* position of a process_chart_data call that runs step by step
    ingRow,      \* the row that call handles next
    before,      \* songs and num_charts when the last call began
    seen,        \* the dataset a concurrent reader observed last, and the call
                 \* count at which it did
    result,      \* the last query: operation, argument, the call count at
                 \* which it was answered, and the answer
    db           \* the comments table of the database, the next id it
                 \* assigns, and whether the manager has a connection

vars == <<file, songs, num_charts, started, success, calls, ret, pc, ingRow, before, seen, result, db>>

Dataset == [songs |-> songs, num_charts |-> num_charts]

NoRet == [success |-> FALSE, message |-> "none"]
NotSeen == [songs |-> <<>>, num_charts |-> 0, at |-> -1]
\* CommentManager without a stored comment
NoComments == [connected |-> TRUE, comments |-> {}, next_id |-> 1]
NoResult == [op |-> "none", arg |-> 0, at |-> 0, value |-> Response("none", <<>>, ZeroCounts)]

\* the chart numbers queried: 0 up to one past the last edition of a table
ChartArgs == 0..Len(HistoryHeader)

Init == /\ file \in Files
    /\ songs = <<>>
    /\ num_charts = 0
    /\ started = FALSE
    /\ success = FALSE
    /\ calls = 0
    /\ ret = NoRet
    /\ pc = "idle"
    /\ ingRow = 0
    /\ before = [songs |-> <<>>, num_charts |-> 0]
    /\ seen = NotSeen
    /\ result = NoResult
    /\ db = NoComments

\* ------------------------------------------------------------------------
\* process_chart_data
\* ------------------------------------------------------------------------
\* The part before the row loop (lines 131-149): the failure it returns, or
\* "ok" with the schema found
Schema(f) == IF f.ext \notin SupportedExt THEN "unsupported"
    ELSE IF ~f.exists THEN "not_found"
    ELSE IF find_song_column(f.header) = NoColumn THEN "no_song_column"
    ELSE IF ChartColumnsRaise(f.header) THEN "unexpected"
    ELSE IF find_chart_columns(f.header) = <<>> THEN "no_chart_columns"
    ELSE "ok"

Failure(message) == [success |-> FALSE, message |-> message]
Loaded == [success |-> TRUE, message |-> "loaded"]

\* lines 151-225: num_charts, the row loop and the return
Ingested(run, chart_columns) == [songs |-> run.songs, num_charts |-> Len(chart_columns), ret |-> IF run.raised THEN Failure("unexpected") ELSE Loaded]

IngestWith(d, f, song_column, chart_columns) == Ingested(RunRows(d.songs, f.rows, 1, song_column, chart_columns), chart_columns)

Checked(d, f, schema) == IF schema # "ok" THEN [songs |-> d.songs, num_charts |-> d.num_charts, ret |-> Failure(schema)]
    ELSE IngestWith(d, f, find_song_column(f.header), find_chart_columns(f.header))

\* The whole call on a processor holding the dataset d
process_chart_data(d, f) == Checked(d, f, Schema(f))

\* app.py lines 39-48: the module-level code loads the data when
\* "WERKZEUG_RUN_MAIN == 'true' or not app.debug" and skips the load otherwise
StartupLoad == \E r \in {process_chart_data(Dataset, file)} :
    /\ songs' = r.songs
    /\ num_charts' = r.num_charts
    /\ ret' = r.ret
    /\ success' = r.ret.success
    /\ calls' = calls + 1
    /\ before' = Dataset

StartupSkip == /\ success' = FALSE
    /\ UNCHANGED <<songs, num_charts, ret, calls, before>>

Startup == /\ ~started
    /\ (StartupLoad \/ StartupSkip)
    /\ started' = TRUE
    /\ UNCHANGED <<db, file, pc, ingRow, seen, result>>

\* A further call of process_chart_data on the same processor that runs to
\* its return without another thread in between
ProcessChartData == /\ started
    /\ pc = "idle"
    /\ calls < MaxCalls
    /\ (\E r \in {process_chart_data(Dataset, file)} :
          /\ songs' = r.songs
          /\ num_charts' = r.num_charts
          /\ ret' = r.ret)
    /\ calls' = calls + 1
    /\ before' = Dataset
    /\ UNCHANGED <<db, file, started, success, pc, ingRow, seen, result>>

\* ------------------------------------------------------------------------
\* Queries
\* ------------------------------------------------------------------------
\* processor.get_chart_data(chart_number)
GetChartData == /\ started
    /\ pc = "idle"
    /\ \E chart_number \in ChartArgs :
        result' = [op |-> "get_chart_data", arg |-> chart_number, at |-> calls, value |-> Response("ok", get_chart_data(songs, chart_number), ZeroCounts)]
    /\ UNCHANGED <<db, file, songs, num_charts, started, success, calls, ret, pc, ingRow, before, seen>>

\* GET /api/chart/<chart_number>
GetChart == /\ started
    /\ pc = "idle"
    /\ \E chart_number \in ChartArgs :
        result' = [op |-> "get_chart", arg |-> chart_number, at |-> calls, value |-> get_chart(success, Dataset, chart_number)]
    /\ UNCHANGED <<db, file, songs, num_charts, started, success, calls, ret, pc, ingRow, before, seen>>

\* ------------------------------------------------------------------------
\* process_chart_data step by step, with a reader in another thread
\* ------------------------------------------------------------------------
\* lines 131-152: read the file, infer the schema, assign num_charts
IngestBegin == /\ started
    /\ pc = "idle"
    /\ calls < MaxCalls
    /\ calls' = calls + 1
    /\ before' = Dataset
    /\ (\E schema \in {Schema(file)} :
          IF schema # "ok"
          THEN /\ ret' = Failure(schema)
               /\ UNCHANGED <<num_charts, pc, ingRow>>
          ELSE /\ num_charts' = Len(find_chart_columns(file.header))
               /\ pc' = "rows"
               /\ ingRow' = 1
               /\ UNCHANGED ret)
    /\ UNCHANGED <<db, file, songs, started, success, seen, result>>

\* lines 158-200: one iteration of the row loop
IngestRow == /\ pc = "rows"
    /\ ingRow <= Len(file.rows)
    /\ (\E o \in {RowOutcome(file.rows[ingRow], find_song_column(file.header), find_chart_columns(file.header))} :
           IF o.q = "raise"
           THEN /\ ret' = Failure("unexpected")
                /\ pc' = "idle"
                /\ UNCHANGED <<songs, ingRow>>
           ELSE /\ songs' = songs \o o.song
                /\ ingRow' = ingRow + 1
                /\ UNCHANGED <<ret, pc>>)
    /\ UNCHANGED <<db, file, num_charts, started, success, calls, before, seen, result>>

\* lines 202-215: the loop is over, return success
IngestEnd == /\ pc = "rows"
    /\ ingRow > Len(file.rows)
    /\ ret' = Loaded
    /\ pc' = "idle"
    /\ UNCHANGED <<db, file, songs, num_charts, started, success, calls, ingRow, before, seen, result>>

\* a reader thread: get_all_songs_data() and a read of num_charts
ReadDataset == /\ started
    /\ seen' = [songs |-> songs, num_charts |-> num_charts, at |-> calls]
    /\ UNCHANGED <<db, file, songs, num_charts, started, success, calls, ret, pc, ingRow, before, result>>

\* ------------------------------------------------------------------------
\* Specifications
\* ------------------------------------------------------------------------
Next == \/ Startup
    \/ ProcessChartData
    \/ GetChartData
    \/ GetChart

Spec == Init /\ [][Next]_vars

NextConc == \/ Startup
    \/ IngestBegin
    \/ IngestRow
    \/ IngestEnd
    \/ ReadDataset

SpecConc == Init /\ [][NextConc]_vars

\* ------------------------------------------------------------------------
\* Properties
\* ------------------------------------------------------------------------
\* the last query was op and the dataset has not been reloaded since
Fresh(op) == result.op = op /\ result.at = calls

\* the songs with a rank in edition n, by index in songs
Charted(n) == {i \in 1..Len(songs) : Get(songs[i].positions, n) # None}

\* the place of song i in the chart of edition n: one more than the number of
\* charted songs with a smaller rank, or the same rank and a smaller index
PlaceIn(i, n) == 1 + Cardinality({j \in Charted(n) : \/ songs[j].positions[n] < songs[i].positions[n]
                                                      \/ (songs[j].positions[n] = songs[i].positions[n] /\ j < i)})

\* the rank of the song in the largest edition m < n in which it has one
LastRankBefore(positions, n) == LET ranked == {m \in DOMAIN positions : m < n /\ positions[m] # None}
    IN IF ranked = {} THEN None ELSE positions[CHOOSE m \in ranked : \A k \in ranked : k <= m]

\* C1 as stated: every entry of get_chart_data(n) carries as prev_position the
\* rank of its song in the largest edition m < n in which the song has a
\* rank, absent editions being skipped over, and None only when there is none
C1_PrevSkipsAbsentEditions == Fresh("get_chart_data") =>
    \A i \in Charted(result.arg) : /\ PlaceIn(i, result.arg) <= Len(result.value.data)
                                   /\ result.value.data[PlaceIn(i, result.arg)].prev_position = LastRankBefore(songs[i].positions, result.arg)

\* C1 amended: every entry of get_chart_data(n) carries as prev_position what
\* its song's positions hold (a rank or None) for the largest edition m < n
\* that is a key of positions, and None when positions has no key below n;
\* an edition in which the song is absent is not skipped over
C1_PrevIsNearestEarlierEdition == Fresh("get_chart_data") =>
    \A i \in Charted(result.arg) :
        LET entry == result.value.data[PlaceIn(i, result.arg)]
            positions == songs[i].positions
            below == {m \in DOMAIN positions : m < result.arg}
        IN /\ PlaceIn(i, result.arg) <= Len(result.value.data)
           /\ \A m \in below : (\A k \in below : k <= m) => entry.prev_position = positions[m]
           /\ below = {} => entry.prev_position = None

\* a song ranked in editions 1 and 3 and absent in edition 2 is listed in the
\* chart of edition 3 without a previous position
C1_Witness == /\ Fresh("get_chart_data")
    /\ result.arg = 3
    /\ \E i \in Charted(3) : /\ Get(songs[i].positions, 1) # None
                             /\ 2 \in DOMAIN songs[i].positions
                             /\ songs[i].positions[2] = None
                             /\ result.value.data[PlaceIn(i, 3)].prev_position = None

\* C9: get_chart_data(n) returns one entry for each song with a rank in
\* edition n and no other, by ascending rank, equal ranks in dataset order
C9_ChartIsSortedSelection == Fresh("get_chart_data") =>
    /\ Len(result.value.data) = Cardinality(Charted(result.arg))
    /\ \A i \in Charted(result.arg) :
        LET entry == result.value.data[PlaceIn(i, result.arg)]
        IN /\ entry.title = songs[i].title
           /\ entry.position = songs[i].positions[result.arg]
           /\ entry.total_charts = songs[i].total_charts

\* a chart in which two song records share a rank and a record with a
\* better rank comes later in the dataset
C9_Witness == /\ Fresh("get_chart_data")
    /\ (\E i, j \in Charted(result.arg) : i < j /\ songs[i].positions[result.arg] = songs[j].positions[result.arg])
    /\ (\E i, j \in Charted(result.arg) : i < j /\ songs[j].positions[result.arg] < songs[i].positions[result.arg])

\* C2: a successful process_chart_data call that follows a successful call on
\* the same unchanged file leaves songs and num_charts as the earlier call
\* left them
C2_ReingestionIsIdempotent == [][(calls >= 1 /\ pc = "idle" /\ ret.success /\ calls' = calls + 1 /\ ret'.success)
    => (songs' = songs /\ num_charts' = num_charts)]_vars

\* C3: a process_chart_data call that returns success = false leaves songs
\* and num_charts exactly as they were before the call
C3_FailureLeavesDatasetUnchanged == [][(calls' = calls + 1 /\ ~ret'.success) => (songs' = songs /\ num_charts' = num_charts)]_vars

\* C4: whatever a reader observes while or after process_chart_data runs is
\* the complete dataset from before that call or the complete dataset the
\* call leaves behind
C4_ReaderSeesCompleteDataset == (seen.at = calls /\ calls >= 1) =>
    \E after \in {process_chart_data(before, file)} :
        \/ (seen.songs = before.songs /\ seen.num_charts = before.num_charts)
        \/ (seen.songs = after.songs /\ seen.num_charts = after.num_charts)

\* C5: for a readable file in a supported format, process_chart_data returns
\* success = true exactly when a title column and at least one chart column
\* are found, whatever the cells hold
C5_SuccessIffSchemaFound == (calls >= 1 /\ pc = "idle" /\ file.ext \in SupportedExt /\ file.exists) =>
    (ret.success <=> (find_song_column(file.header) # NoColumn /\ find_chart_columns(file.header) # <<>>))

\* the rows that have a title after normalization and a rank in some edition
KeptRows == {i \in 1..Len(file.rows) :
    /\ normalize_song_title(file.rows[i][find_song_column(file.header)]) # <<>>
    /\ \E positions \in {RowPositions(file.rows[i], find_chart_columns(file.header))} : \E e \in DOMAIN positions : positions[e] # None}

\* C6: after one successful ingestion into an empty processor, songs holds
\* one record for each row with a non-empty normalized title and at least
\* one rank, in row order, and no other record; a table whose other rows
\* all lack a title or a rank is still ingested successfully
C6_SongsAreKeptRowsInOrder == (calls = 1 /\ pc = "idle" /\ ret.success) =>
    /\ Len(songs) = Cardinality(KeptRows)
    /\ \A i \in KeptRows :
        \E k \in {Cardinality({j \in KeptRows : j <= i})} :
            /\ songs[k].title = normalize_song_title(file.rows[i][find_song_column(file.header)])
            /\ songs[k].positions = RowPositions(file.rows[i], find_chart_columns(file.header))

\* a successful first ingestion that skipped the first row and kept the second
C6_Witness == /\ calls = 1
    /\ pc = "idle"
    /\ ret.success
    /\ KeptRows = {2}
    /\ Len(songs) = 1

\* the label C7 gives the entry of song i in the chart of edition n, prev
\* being the entry's previous position
ExpectedMovement(i, n, entry, prev) == IF prev = None
    THEN (IF \E m \in 1..(n - 1) : Get(songs[i].positions, m) # None THEN "reentry" ELSE "new")
    ELSE IF prev - entry.position >= 1 THEN "riser"
    ELSE IF prev - entry.position <= -1 THEN "faller"
    ELSE "same"

\* C7: every entry of the chart of an edition n >= 1 is labelled reentry when
\* its previous position is absent and its song has a rank in an earlier
\* edition, new when it is absent and the song has none, and otherwise
\* riser, faller or same by the sign of previous minus current
C7_MovementLabels == (Fresh("get_chart") /\ result.arg >= 1 /\ result.value.status = "ok") =>
    \A i \in Charted(result.arg) :
        \E entry \in {result.value.data[PlaceIn(i, result.arg)]} :
            entry.movement_type = ExpectedMovement(i, result.arg, entry, PrevPosition(songs[i].positions, result.arg))

\* the place of song i in the all-songs chart: one more than the number of
\* songs with more points, or the same points and a smaller index
PointsPlace(i) == 1 + Cardinality({j \in 1..Len(songs) : \/ calculate_total_points(songs[j]) > calculate_total_points(songs[i])
                                                          \/ (calculate_total_points(songs[j]) = calculate_total_points(songs[i]) /\ j < i)})

\* C8: chart 0 lists every song once, by descending total points, equal
\* points in dataset order, with position 1..N in that order, the
\* placeholder as previous position and the movement same
C8_AllSongsView == (Fresh("get_chart") /\ result.arg = 0 /\ result.value.status = "ok") =>
    /\ Len(result.value.data) = Len(songs)
    /\ \A i \in 1..Len(songs) :
        \E entry \in {result.value.data[PointsPlace(i)]} :
            /\ entry.title = songs[i].title
            /\ entry.total_charts = songs[i].total_charts
            /\ entry.total_points = calculate_total_points(songs[i])
            /\ entry.position = PointsPlace(i)
            /\ entry.prev_position = Placeholder
            /\ entry.movement_type = "same"

\* an all-songs chart in which two song records have equal points and the
\* first song of the dataset is not the first of the chart
C8_Witness == /\ Fresh("get_chart")
    /\ result.arg = 0
    /\ result.value.status = "ok"
    /\ Len(songs) >= 2
    /\ result.value.data[1].title # songs[1].title
    /\ (\E i, j \in 1..Len(songs) : i < j /\ calculate_total_points(songs[i]) = calculate_total_points(songs[j]))

\* the edition numbers of the chart columns of the file
Editions == {HeaderChartNum(file.header[j]).n : j \in {c \in 1..Len(file.header) : InRange(HeaderChartNum(file.header[c]))}}

\* C10: after a successful ingestion num_charts is the number of distinct
\* edition numbers found and the keys of every song's positions lie in
\* 1..num_charts
C10_NumChartsBoundsEditions == (calls >= 1 /\ pc = "idle" /\ ret.success) =>
    /\ num_charts = Cardinality(Editions)
    /\ \A i \in 1..Len(songs) : DOMAIN songs[i].positions \subseteq 1..num_charts

\* C11: in every reachable state every song record has total_charts equal to
\* the number of editions in which its positions hold a rank, and that
\* number is at least 1
C11_TotalChartsCountsRanks == \A i \in 1..Len(songs) :
    /\ songs[i].total_charts = Cardinality({e \in DOMAIN songs[i].positions : songs[i].positions[e] # None})
    /\ songs[i].total_charts >= 1

\* a dataset with a song that is absent in one edition and ranked in another,
\* ingested from a table that also has a row without any rank
C11_Witness == /\ calls >= 1
    /\ pc = "idle"
    /\ (\E i \in 1..Len(songs) : \E e \in DOMAIN songs[i].positions : songs[i].positions[e] = None)
    /\ Len(file.rows) > Cardinality(KeptRows)
    /\ KeptRows # {}

\* C12: in the dataset a successful ingestion into an empty processor
\* produces, no two song records have titles that are equal ignoring case
C12_TitlesAreUniqueKey == (calls = 1 /\ pc = "idle" /\ ret.success) =>
    \A i, j \in 1..Len(songs) : i < j => Lower(songs[i].title) # Lower(songs[j].title)

\* C13: every rank stored in a song record is a positive integer
C13_RanksArePositive == \A i \in 1..Len(songs) : \A e \in DOMAIN songs[i].positions :
    songs[i].positions[e] # None => songs[i].positions[e] >= 1

\* ------------------------------------------------------------------------
\* calculate_total_points applied to the records of a dataset
\* ------------------------------------------------------------------------
\* the ranks a record may hold: absent, and ranks around 1 and around the cap
PointsRanks == {None, 0, 1, 2, 100, 101, 102}
PointsEditions == 1..MaxPos

PointsSongs == {SongData(<<"a">>, positions) : positions \in [PointsEditions -> PointsRanks]}

InitPoints == /\ file = Table(CellHeader, <<>>)
    /\ songs \in [1..2 -> PointsSongs]
    /\ num_charts = MaxPos
    /\ started = TRUE
    /\ success = TRUE
    /\ calls = 0
    /\ ret = NoRet
    /\ pc = "idle"
    /\ ingRow = 0
    /\ before = [songs |-> <<>>, num_charts |-> 0]
    /\ seen = NotSeen
    /\ result = NoResult
    /\ db = NoComments

\* total_points = calculate_total_points(song) for every song (app.py line 235)
TotalPointsOf(ss) == [i \in 1..Len(ss) |-> [total_points |-> calculate_total_points(ss[i])]]

CalculateTotalPoints == /\ result.op = "none"
    /\ result' = [op |-> "calculate_total_points", arg |-> 0, at |-> calls, value |-> Response("ok", TotalPointsOf(songs), ZeroCounts)]
    /\ UNCHANGED <<db, file, songs, num_charts, started, success, calls, ret, pc, ingRow, before, seen>>

NextPoints == CalculateTotalPoints

SpecPoints == InitPoints /\ [][NextPoints]_vars

\* the sum of f over the set S
RECURSIVE SumFn(_, _)
SumFn(f, S) == IF S = {} THEN 0 ELSE f[Max(S)] + SumFn(f, S \ {Max(S)})

\* the points C14 gives a record: 101 - p for every rank p <= 100
ClaimedPoints(positions) == SumFn([e \in DOMAIN positions |-> IF positions[e] # None /\ positions[e] <= 100 THEN 101 - positions[e] ELSE 0], DOMAIN positions)

\* q is p with the rank of one edition improved, from a rank <= 100
ImprovedOne(p, q) == \E e \in DOMAIN p : /\ \A o \in DOMAIN p \ {e} : q[o] = p[o]
                                          /\ p[e] # None /\ q[e] # None /\ p[e] <= 100 /\ q[e] < p[e]

\* q is p but for one edition, whose rank is absent or beyond 100 in both
BeyondCapOne(p, q) == \E e \in DOMAIN p : /\ \A o \in DOMAIN p \ {e} : q[o] = p[o]
                                           /\ (p[e] = None \/ p[e] > 100)
                                           /\ (q[e] = None \/ q[e] > 100)

\* C14: calculate_total_points is the sum of 101 - p over the ranks p <= 100
\* of the record; it does not decrease when one rank <= 100 improves, and
\* does not change with a rank that is absent or beyond 100
C14_TotalPoints == result.op = "calculate_total_points" =>
    \A i, j \in 1..Len(songs) :
        /\ result.value.data[i].total_points = ClaimedPoints(songs[i].positions)
        /\ ImprovedOne(songs[i].positions, songs[j].positions) => result.value.data[j].total_points >= result.value.data[i].total_points
        /\ BeyondCapOne(songs[i].positions, songs[j].positions) => result.value.data[j].total_points = result.value.data[i].total_points

\* two records, the second the first with one rank improved from 100 to 1
\* and a rank beyond the cap changed, and more points for the second
C14_Witness == /\ result.op = "calculate_total_points"
    /\ ImprovedOne(songs[1].positions, songs[2].positions)
    /\ (\E e \in PointsEditions : songs[1].positions[e] = 102)
    /\ (\E e \in PointsEditions : songs[1].positions[e] = 100 /\ songs[2].positions[e] = 1)
    /\ result.value.data[1].total_points = 1
    /\ result.value.data[2].total_points = 100

\* ------------------------------------------------------------------------
\* Schema inference applied to the header row of a table
\* ------------------------------------------------------------------------
MaxCols == 3

\* headers as read_csv gives them (strings) and as read_excel gives them
\* (strings, integers and floats)
HeaderValues == {HSong, HExtra, PyStr(<<"S", "o", "N", "g">>), PyStr(<<"m", "y", " ", "s", "o", "n", "g">>), PyStr(<<"T", "I", "T", "L", "E">>),
    Str1("1"), Str1("2"), PyStr(<<"0", "1">>), PyStr(<<" ", "3", " ">>), Str1("0"), PyStr(<<"1", "0", "0">>), PyStr(<<"2", ".", "5">>),
    PyInt(1), PyInt(0), PyInt(100), PyFloat(25)}

InitSchema == /\ file \in {[Table(h, <<>>) EXCEPT !.ext = ".xlsx"] : h \in SeqsUpTo(HeaderValues, MaxCols)}
    /\ songs = <<>>
    /\ num_charts = 0
    /\ started = TRUE
    /\ success = FALSE
    /\ calls = 0
    /\ ret = NoRet
    /\ pc = "idle"
    /\ ingRow = 0
    /\ before = [songs |-> <<>>, num_charts |-> 0]
    /\ seen = NotSeen
    /\ result = NoResult
    /\ db = NoComments

\* chart_columns = self.find_chart_columns(df)
FindChartColumns == /\ result.op = "none"
    /\ result' = [op |-> "find_chart_columns", arg |-> 0, at |-> calls, value |-> Response("ok", find_chart_columns(file.header), ZeroCounts)]
    /\ UNCHANGED <<db, file, songs, num_charts, started, success, calls, ret, pc, ingRow, before, seen>>

\* song_column = self.find_song_column(df)
FindSongColumn == /\ result.op = "none"
    /\ result' = [op |-> "find_song_column", arg |-> find_song_column(file.header), at |-> calls, value |-> Response("ok", <<>>, ZeroCounts)]
    /\ UNCHANGED <<db, file, songs, num_charts, started, success, calls, ret, pc, ingRow, before, seen>>

NextSchema == \/ FindChartColumns
    \/ FindSongColumn

SpecSchema == InitSchema /\ [][NextSchema]_vars

\* the headers C15 lets qualify: an integer, or a string of digits (blanks
\* around it aside), with a value from 1 to 99
ClaimedEdition(col) == IF col.k = "int" THEN col.n ELSE IF col.k = "str" /\ IsDigit(Strip(col.s)) THEN DigitsToInt(Strip(col.s)) ELSE 0

\* C15: find_chart_columns returns the columns whose header is an integer or
\* a string of digits with a value in 1..99 and no other column, each with
\* that value as its edition number, in ascending order of edition number
C15_ChartColumnsAreIntegerHeaders == result.op = "find_chart_columns" =>
    /\ {result.value.data[k].col : k \in 1..Len(result.value.data)} = {i \in 1..Len(file.header) : ClaimedEdition(file.header[i]) \in 1..99}
    /\ \A k \in 1..Len(result.value.data) : result.value.data[k].num = ClaimedEdition(file.header[result.value.data[k].col])
    /\ \A k, l \in 1..Len(result.value.data) : k < l => result.value.data[k].num <= result.value.data[l].num

\* the header is "song", "title" or "track" in any letter casing
IsSongWord(col_str) == col_str \in {<<"s", "o", "n", "g">>, <<"t", "i", "t", "l", "e">>, <<"t", "r", "a", "c", "k">>}

\* C16: find_song_column returns the first column whose header is "song",
\* "title" or "track" in any letter casing when there is one, otherwise the
\* first column whose header contains one of these words, otherwise none
C16_SongColumnIgnoresCase == result.op = "find_song_column" =>
    result.arg = FirstMatch({i \in 1..Len(file.header) : IsSongWord(Lower(Strip(PyToStr(file.header[i]))))},
                            {i \in 1..Len(file.header) : HasSongWord(Lower(Strip(PyToStr(file.header[i]))))})

\* ------------------------------------------------------------------------
\* normalize_song_title applied to a title, and again to its own result
\* ------------------------------------------------------------------------
MaxTitleLen == 5

\* a letter, a space, a kept and a removed punctuation mark, a symbol
TitleChars == {"a", " ", "-", "!", "$"}

InitNormalize == /\ file \in {Table(CellHeader, <<<<PyStr(t), PyInt(1)>>>>) : t \in SeqsUpTo(TitleChars, MaxTitleLen)}
    /\ songs = <<>>
    /\ num_charts = 0
    /\ started = TRUE
    /\ success = FALSE
    /\ calls = 0
    /\ ret = NoRet
    /\ pc = "idle"
    /\ ingRow = 0
    /\ before = [songs |-> <<>>, num_charts |-> 0]
    /\ seen = NotSeen
    /\ result = NoResult
    /\ db = NoComments

Normalized(n, title) == [op |-> "normalize_song_title", arg |-> n, at |-> calls, value |-> Response("ok", <<[input |-> title.s, title |-> normalize_song_title(title)]>>, ZeroCounts)]

\* song_title = self.normalize_song_title(row.get(song_column, ""))
NormalizeSongTitle == /\ result.op = "none"
    /\ result' = Normalized(1, file.rows[1][find_song_column(file.header)])
    /\ UNCHANGED <<db, file, songs, num_charts, started, success, calls, ret, pc, ingRow, before, seen>>

\* normalize_song_title applied to the title it returned
NormalizeAgain == /\ result.op = "normalize_song_title"
    /\ result.arg = 1
    /\ result' = Normalized(2, PyStr(result.value.data[1].title))
    /\ UNCHANGED <<db, file, songs, num_charts, started, success, calls, ret, pc, ingRow, before, seen>>

NextNormalize == \/ NormalizeSongTitle
    \/ NormalizeAgain

SpecNormalize == InitNormalize /\ [][NextNormalize]_vars

\* C17: normalize_song_title applied to a title it returned gives that title
\* back, and no title it returns has two whitespace characters in a row
C17_NormalizeIsIdempotent == result.op = "normalize_song_title" =>
    /\ result.arg = 2 => result.value.data[1].title = result.value.data[1].input
    /\ \A i \in 1..(Len(result.value.data[1].title) - 1) : ~(result.value.data[1].title[i] \in Whitespace /\ result.value.data[1].title[i + 1] \in Whitespace)

\* ------------------------------------------------------------------------
\* The song endpoints of the web layer
\* ------------------------------------------------------------------------
\* the record of a lookup: a sequence with the record found, or empty (None)
FirstOrNone(ss, hits) == IF hits = {} THEN <<>> ELSE <<ss[Min(hits)]>>

\* ChartDataProcessor.get_song_history: the first record whose title equals
\* song_title ignoring case
get_song_history(ss, song_title) == FirstOrNone(ss, {i \in 1..Len(ss) : Lower(ss[i].title) = Lower(song_title)})

\* the loop "for chart_num in range(1, processor.num_charts + 1)"
RECURSIVE SongChartData(_, _, _)
SongChartData(positions, chart_num, last) == IF chart_num > last THEN <<>>
    ELSE (IF Get(positions, chart_num) # None THEN <<[chart |-> chart_num, position |-> Get(positions, chart_num)]>> ELSE <<>>)
         \o SongChartData(positions, chart_num + 1, last)

\* calculate_song_stats on the ranks of a record; avg_position is the
\* quotient sum / len, kept as the pair of its terms
StatsOf(ranks, keys) == IF keys = {} THEN [total_charts |-> 0, avg_position |-> <<0, 1>>, best_position |-> 0, worst_position |-> 0]
    ELSE [total_charts |-> Cardinality(keys), avg_position |-> <<SumFn(ranks, keys), Cardinality(keys)>>,
          best_position |-> Min({ranks[e] : e \in keys}), worst_position |-> Max({ranks[e] : e \in keys})]

calculate_song_stats(song_data) == StatsOf(song_data.positions, {e \in DOMAIN song_data.positions : song_data.positions[e] # None})

ErrorResponse(error) == [status |-> error]

\* Variant: the handler does not look at the success flag
SongFoundUnchecked(ok, found, last) == IF found = <<>> THEN ErrorResponse("Song not found")
    ELSE [status |-> "ok", title |-> found[1].title, chart_data |-> SongChartData(found[1].positions, 1, last), stats |-> calculate_song_stats(found[1])]

\* GET /api/song/<song_title>
SongFound(ok, found, last) == IF ~ok THEN ErrorResponse("No data available")
    ELSE IF found = <<>> THEN ErrorResponse("Song not found")
    ELSE [status |-> "ok", title |-> found[1].title, chart_data |-> SongChartData(found[1].positions, 1, last), stats |-> calculate_song_stats(found[1])]

get_song(ok, d, song_title) == SongFound(ok, get_song_history(d.songs, song_title), d.num_charts)

\* GET /api/song-history/<song_title>
HistoryFound(ok, found, last) == IF ~ok THEN ErrorResponse("No data available")
    ELSE IF found = <<>> THEN ErrorResponse("Song not found")
    ELSE [status |-> "ok", title |-> found[1].title, chart_data |-> SongChartData(found[1].positions, 1, last), total_charts |-> found[1].total_charts]

get_song_history_api(ok, d, song_title) == HistoryFound(ok, get_song_history(d.songs, song_title), d.num_charts)

\* GET /song/<song_title>
song_page(ok, d, song_title) == IF ~ok THEN ErrorResponse("No data available")
    ELSE IF get_song_history(d.songs, song_title) = <<>> THEN ErrorResponse("Song not found")
    ELSE [status |-> "ok", song_title |-> song_title]

\* the titles requested
SongTitleArgs == {<<"a">>, <<"A">>, <<"b">>, <<"z">>}

GetSong == /\ started
    /\ pc = "idle"
    /\ \E song_title \in SongTitleArgs :
        result' = [op |-> "get_song", arg |-> song_title, at |-> calls, value |-> get_song(success, Dataset, song_title)]
    /\ UNCHANGED <<db, file, songs, num_charts, started, success, calls, ret, pc, ingRow, before, seen>>

GetSongHistory == /\ started
    /\ pc = "idle"
    /\ \E song_title \in SongTitleArgs :
        result' = [op |-> "get_song_history", arg |-> song_title, at |-> calls, value |-> get_song_history_api(success, Dataset, song_title)]
    /\ UNCHANGED <<db, file, songs, num_charts, started, success, calls, ret, pc, ingRow, before, seen>>

SongPage == /\ started
    /\ pc = "idle"
    /\ \E song_title \in SongTitleArgs :
        result' = [op |-> "song_page", arg |-> song_title, at |-> calls, value |-> song_page(success, Dataset, song_title)]
    /\ UNCHANGED <<db, file, songs, num_charts, started, success, calls, ret, pc, ingRow, before, seen>>

\* the web layer calls process_chart_data at startup only
NextWeb == \/ Startup
    \/ GetChart
    \/ GetSong
    \/ GetSongHistory
    \/ SongPage

SpecWeb == Init /\ [][NextWeb]_vars

\* C18: when the startup ingestion did not succeed, every answer of a chart
\* or song endpoint is the error "No data available"
C18_NoDataWithoutSuccess == (started /\ ~success /\ result.op # "none") => result.value = ErrorResponse("No data available") \/ result.value = Response("No data available", <<>>, ZeroCounts)

\* the startup ingestion failed after it had appended a record, and a
\* request for a song of the dataset is answered with the error
C18_Witness == /\ started
    /\ ~success
    /\ Fresh("get_song")
    /\ get_song_history(songs, result.arg) # <<>>
    /\ result.value.status = "No data available"

\* C19: for the song a successful /api/song answer is about, chart_data has
\* one entry for each edition in which the song has a rank, in ascending
\* order of edition, so its length is stats.total_charts and the song's
\* total_charts
C19_SongChartDataIsComplete == (Fresh("get_song") /\ result.value.status = "ok") =>
    \A i \in 1..Len(songs) : get_song_history(songs, result.arg) = <<songs[i]>> =>
        /\ {result.value.chart_data[k].chart : k \in 1..Len(result.value.chart_data)} = {e \in DOMAIN songs[i].positions : songs[i].positions[e] # None}
        /\ \A k \in 1..Len(result.value.chart_data) : result.value.chart_data[k].position = songs[i].positions[result.value.chart_data[k].chart]
        /\ Len(result.value.chart_data) = result.value.stats.total_charts
        /\ Len(result.value.chart_data) = songs[i].total_charts

\* ------------------------------------------------------------------------
\* CommentManager (src/comment_manager.py)
\* A query is executed or fails; _execute_query answers a failed query, and
\* any query without a connection, with the empty list
\* ------------------------------------------------------------------------
MaxComments == 2
TextCap == 200

\* text[:200]
Truncate(s, n) == SubSeq(s, 1, IF Len(s) < n THEN Len(s) ELSE n)

CommentRow(id, song_key, user, text) == [id |-> id, song_title |-> song_key, user_name |-> user, comment_text |-> text]

\* lines 130-154: the INSERT, and True whether or not it was executed
add_comment(d, song_title, user, text, executed) == IF d.connected /\ executed
    THEN [db |-> [d EXCEPT !.comments = @ \cup {CommentRow(d.next_id, Strip(Lower(song_title)), Strip(user), Truncate(Strip(text), TextCap))}, !.next_id = @ + 1], ret |-> TRUE]
    ELSE [db |-> d, ret |-> TRUE]

\* "SELECT user_name FROM comments WHERE id = %s"
OwnersOf(d, comment_id, executed) == IF d.connected /\ executed THEN {c.user_name : c \in {x \in d.comments : x.id = comment_id}} ELSE {}

\* Variant: every user may change every comment
PermittedAnyUser(is_admin, user, comment_owner) == TRUE

\* lines 171 and 208: "not (not is_admin and user != comment_owner)"
Permitted(is_admin, user, comment_owner) == is_admin \/ user = comment_owner

WithText(comments, comment_id, new_text) == {IF c.id = comment_id THEN [c EXCEPT !.comment_text = new_text] ELSE c : c \in comments}

\* lines 164-191
UpdateChecked(d, results, comment_id, new_text, user, is_admin, executed) == IF results = {} THEN [db |-> d, ret |-> FALSE]
    ELSE IF \E comment_owner \in results : ~Permitted(is_admin, user, comment_owner) THEN [db |-> d, ret |-> FALSE]
    ELSE IF executed THEN [db |-> [d EXCEPT !.comments = WithText(@, comment_id, Truncate(Strip(new_text), TextCap))], ret |-> TRUE]
    ELSE [db |-> d, ret |-> TRUE]

update_comment(d, comment_id, new_text, user, is_admin, selected, executed) == UpdateChecked(d, OwnersOf(d, comment_id, selected), comment_id, new_text, user, is_admin, executed)

\* lines 201-223
DeleteChecked(d, results, comment_id, user, is_admin, executed) == IF results = {} THEN [db |-> d, ret |-> FALSE]
    ELSE IF \E comment_owner \in results : ~Permitted(is_admin, user, comment_owner) THEN [db |-> d, ret |-> FALSE]
    ELSE IF executed THEN [db |-> [d EXCEPT !.comments = {c \in @ : c.id # comment_id}], ret |-> TRUE]
    ELSE [db |-> d, ret |-> TRUE]

delete_comment(d, comment_id, user, is_admin, selected, executed) == DeleteChecked(d, OwnersOf(d, comment_id, selected), comment_id, user, is_admin, executed)

CommentUsers == {<<"u">>, <<"v">>, <<" ", "u">>}
CommentTexts == {<<"x">>, <<"y", " ">>}
CommentIds == 1..(MaxComments + 1)

InitComments == /\ file = Table(CellHeader, <<>>)
    /\ songs = <<>>
    /\ num_charts = 0
    /\ started = TRUE
    /\ success = FALSE
    /\ calls = 0
    /\ ret = NoRet
    /\ pc = "idle"
    /\ ingRow = 0
    /\ before = [songs |-> <<>>, num_charts |-> 0]
    /\ seen = NotSeen
    /\ result = NoResult
    /\ db \in {NoComments, [NoComments EXCEPT !.connected = FALSE]}

Called(op, comment_id, user, is_admin, r) == [op |-> op, arg |-> [comment_id |-> comment_id, user |-> user, is_admin |-> is_admin], at |-> calls, value |-> [status |-> r.ret]]

AddComment == /\ db.next_id <= MaxComments
    /\ (\E user \in CommentUsers, text \in CommentTexts, executed \in BOOLEAN :
          \E r \in {add_comment(db, <<"A">>, user, text, executed)} :
              /\ db' = r.db
              /\ result' = Called("add_comment", 0, user, FALSE, r))
    /\ UNCHANGED <<file, songs, num_charts, started, success, calls, ret, pc, ingRow, before, seen>>

UpdateComment ==
    /\ (\E comment_id \in CommentIds, user \in CommentUsers, new_text \in CommentTexts, is_admin \in BOOLEAN, selected \in BOOLEAN, executed \in BOOLEAN :
          \E r \in {update_comment(db, comment_id, new_text, user, is_admin, selected, executed)} :
              /\ db' = r.db
              /\ result' = Called("update_comment", comment_id, user, is_admin, r))
    /\ UNCHANGED <<file, songs, num_charts, started, success, calls, ret, pc, ingRow, before, seen>>

DeleteComment ==
    /\ (\E comment_id \in CommentIds, user \in CommentUsers, is_admin \in BOOLEAN, selected \in BOOLEAN, executed \in BOOLEAN :
          \E r \in {delete_comment(db, comment_id, user, is_admin, selected, executed)} :
              /\ db' = r.db
              /\ result' = Called("delete_comment", comment_id, user, is_admin, r))
    /\ UNCHANGED <<file, songs, num_charts, started, success, calls, ret, pc, ingRow, before, seen>>

NextComments == \/ AddComment
    \/ UpdateComment
    \/ DeleteComment

SpecComments == InitComments /\ [][NextComments]_vars

\* the call recorded in r is an update_comment or delete_comment call on
\* comment c by its owner or by an admin
ByOwnerOrAdmin(r, c) == /\ r.op \in {"update_comment", "delete_comment"}
    /\ r.arg.comment_id = c.id
    /\ (r.arg.is_admin \/ r.arg.user = c.user_name)

\* every comment whose text this step changes or that it removes is the
\* target of an update_comment or delete_comment call by its owner or an admin
ChangesAreByOwnerOrAdmin == \A c \in db.comments : (c \notin db'.comments) => ByOwnerOrAdmin(result', c)

\* an update_comment or delete_comment call that is not by the owner of a
\* stored comment with that id, nor by an admin, returns False and leaves
\* the stored comments as they were
OtherCallsAreRefused == (result'.op \in {"update_comment", "delete_comment"} /\ ~(\E c \in db.comments : ByOwnerOrAdmin(result', c)))
    => (result'.value.status = FALSE /\ db' = db)

\* C20: a step changes the text of a stored comment or removes it only if it
\* is an update_comment or delete_comment call by the comment's user_name or
\* with is_admin; every other update_comment or delete_comment call returns
\* False and leaves the stored comments unchanged
C20_OnlyOwnerOrAdminChanges == [][ChangesAreByOwnerOrAdmin /\ OtherCallsAreRefused]_vars

\* a delete_comment call on a stored comment by a user who is neither its
\* owner nor an admin was refused
C20_Witness == /\ result.op = "delete_comment"
    /\ result.value.status = FALSE
    /\ ~result.arg.is_admin
    /\ (\E c \in db.comments : c.id = result.arg.comment_id /\ c.user_name # result.arg.user)

====
